---- MODULE Spec2Model ----
(***************************************************************************)
(* Model of the two Unreal bridge components of unity-sim-packs:           *)
(*   UDataVisualizationBridge  (packages/data-visualization/.../Bridge.cpp) *)
(*   USteamAIBridge            (packages/ai/.../Bridge.cpp)                 *)
(* The script runtime, the file system and the clock are the environment:  *)
(* their answers are inputs drawn from small sets.                         *)
(***************************************************************************)
EXTENDS Integers, Sequences, FiniteSets, TLC

VARIABLES
  WITH_V8,      \* build flag of the data-visualization bridge
  dv,           \* the UDataVisualizationBridge object (fields named as in Bridge.h)
  sinceBatch,   \* FPlatformTime::Seconds() - LastBatchTime, saturated at ClockCap
  tickFlush,    \* history: [had, since] time since the last Tick-driven flush
  jsLog,        \* scripts the last operation passed to ExecuteJavaScript / the context
  lastOp,       \* the last operation called on the data-visualization bridge
  queueHist,    \* history: charts whose queued updates were overtaken / outlived the chart
  ai,           \* the USteamAIBridge objects, by instance
  StaticInstance, \* USteamAIBridge::StaticInstance
  aiOut,        \* what the last USteamAIBridge operation did (return, engine calls, broadcasts)
  lastReg,      \* history: per bridge, kind, agent and name, the delegate last registered
  gcHist        \* history: per bridge, [had, since] time since its last tick-driven collection

vars == <<WITH_V8, dv, sinceBatch, tickFlush, jsLog, lastOp, queueHist, ai, StaticInstance, aiOut, lastReg, gcHist>>
dvVars == <<WITH_V8, dv, sinceBatch, tickFlush, jsLog, lastOp, queueHist>>
aiVars == <<ai, StaticInstance, aiOut, lastReg, gcHist>>

----------------------------------------------------------------------------
(* Bounds of the model *)

MaxPending == 2
MaxQueuedLife == 1
MaxApply == 1
MaxInterval == 1
\* the float LastBatchTime is at most this far from the double clock it stores
MaxRoundOff == 1
MaxGCInterval == 2
MaxDelta == 2
MaxCalls == 2
MaxRegs == 2

ChartIds == {"c1", "c2"}
DashboardIds == {"d1"}
KnownMethods == {"updateSingleData", "updateMultiData", "updateArrayData"}
\* FBatchUpdateData() leaves Method empty; ApplyBatchedUpdates takes any Method
AnyMethods == KnownMethods \cup {""}
ScriptOutcomes == {"SUCCESS", "ERROR"}

\* the clock difference is compared with BatchInterval only: past every
\* interval the model can set, larger differences behave alike
ClockCap == MaxInterval + 1

Sat(t) == IF t > ClockCap THEN ClockCap ELSE t

\* BatchInterval = 0.1f, in units of 0.1 s
DefaultBatchInterval == 1

----------------------------------------------------------------------------
(* UDataVisualizationBridge: scripts *)

Stmt(fn, id, data) == [fn |-> fn, id |-> id, data |-> data]

Script1(fn, id, data) == <<Stmt(fn, id, data)>>

LogEntry(api, script, result, reached) ==
  [api |-> api, script |-> script, result |-> result, reached |-> reached]

\* ExecuteJavaScript: the result text, reduced to whether it contains "ERROR"
ExecuteJavaScript(d, script, outcome) ==
  IF ~WITH_V8 THEN LogEntry("ExecuteJavaScript", script, "ERROR", FALSE)
  ELSE IF ~d.JavaScriptContext THEN LogEntry("ExecuteJavaScript", script, "ERROR", FALSE)
  ELSE LogEntry("ExecuteJavaScript", script, outcome, TRUE)

IsError(entry) == entry.result = "ERROR"

Update(id, method, data) == [ChartId |-> id, Method |-> method, Data |-> data]

\* the record of a call: its name, argument and return, the answers of the
\* environment (env), and what held when it was made
Op(op, arg, ret, wasInit, hadPending, flushed, updates) ==
  [op |-> op, arg |-> arg, ret |-> ret, wasInit |-> wasInit,
   hadPending |-> hadPending, flushed |-> flushed, updates |-> updates,
   env |-> <<>>]

\* UDataVisualizationBridge::UDataVisualizationBridge
DVConstructed ==
  [bIsInitialized |-> FALSE,
   JavaScriptEngine |-> "null",
   JavaScriptContext |-> FALSE,
   Charts |-> {},
   Dashboards |-> {},
   PendingUpdates |-> <<>>,
   bEnableBatchUpdates |-> TRUE,
   BatchInterval |-> DefaultBatchInterval]

----------------------------------------------------------------------------
(* UDataVisualizationBridge: initialization *)

EngineOutcomes == {"ok", "initFail", "ctxFail", "throw"}
FileOutcomes == {"ok", "missing", "unreadable"}

Res(d, ok, log) == [d |-> d, ok |-> ok, log |-> log]

\* InitializeJavaScriptEngine; eo is what the V8 engine answers
InitializeJavaScriptEngine(d, eo) ==
  IF ~WITH_V8 THEN Res(d, FALSE, <<>>)
  ELSE IF eo = "initFail"
    THEN Res([d EXCEPT !.JavaScriptEngine = "created"], FALSE, <<>>)
  ELSE IF eo = "ctxFail"
    THEN Res([d EXCEPT !.JavaScriptEngine = "initialized", !.JavaScriptContext = FALSE],
             FALSE, <<>>)
  ELSE Res([d EXCEPT !.JavaScriptEngine = "initialized", !.JavaScriptContext = TRUE],
           eo = "ok",
           <<LogEntry("Context", Script1("utility", "", ""),
                      IF eo = "ok" THEN "SUCCESS" ELSE "ERROR", TRUE)>>)

\* LoadDataVisualizationPackage
LoadDataVisualizationPackage(d, file, o1, o2) ==
  IF file # "ok" THEN Res(d, FALSE, <<>>)
  ELSE LET e1 == ExecuteJavaScript(d, Script1("package", "", ""), o1)
           e2 == ExecuteJavaScript(d, Script1("initManager", "", ""), o2)
       IN IF IsError(e1) THEN Res(d, FALSE, <<e1>>)
          ELSE IF IsError(e2) THEN Res(d, FALSE, <<e1, e2>>)
          ELSE Res(d, TRUE, <<e1, e2>>)

\* faulty variant: bIsInitialized is set before the package is loaded
InitializeOnEager(d, eo, file, o1, o2) ==
  IF d.bIsInitialized THEN Res(d, TRUE, <<>>)
  ELSE LET en == InitializeJavaScriptEngine(d, eo)
           ld == LoadDataVisualizationPackage(en.d, file, o1, o2)
       IN IF ~en.ok THEN Res(en.d, FALSE, en.log)
          ELSE Res([ld.d EXCEPT !.bIsInitialized = TRUE], ld.ok, en.log \o ld.log)

\* Initialize, as a function of the bridge and the environment's answers
InitializeOn(d, eo, file, o1, o2) ==
  IF d.bIsInitialized THEN Res(d, TRUE, <<>>)
  ELSE LET en == InitializeJavaScriptEngine(d, eo)
           ld == LoadDataVisualizationPackage(en.d, file, o1, o2)
       IN IF ~en.ok THEN Res(en.d, FALSE, en.log)
          ELSE IF ~ld.ok THEN Res(ld.d, FALSE, en.log \o ld.log)
          ELSE Res([ld.d EXCEPT !.bIsInitialized = TRUE], TRUE, en.log \o ld.log)

BoolStr(b) == IF b THEN "true" ELSE "false"

ChartsOf(q) == {q[i].ChartId : i \in 1..Len(q)}

ImmediateFns == {"updateChart", "updateChartMultiData", "updateChartArrayData"}

\* the charts for which the runtime ran a script that starts with one of fns
RanFor(log, fns) ==
  {log[k].script[1].id :
     k \in {j \in 1..Len(log) : /\ log[j].reached /\ log[j].result = "SUCCESS"
                                /\ log[j].script[1].fn \in fns}}

\* the history of the queue after an operation that took the bridge from
\* before to after and passed log to the runtime. overtaken: charts with a
\* queued update that was called before an update the runtime has already
\* run. removed: charts with a queued update that was called before the
\* chart was removed from Charts.
QueueHistory(h, before, after, log) ==
  LET queued == ChartsOf(before.PendingUpdates)
      still == ChartsOf(after.PendingUpdates)
      gone == IF RanFor(log, {"clearAllCharts"}) # {} THEN before.Charts
              ELSE before.Charts \cap RanFor(log, {"removeChart"})
  IN [overtaken |-> (h.overtaken \cup (queued \cap RanFor(log, ImmediateFns))) \cap still,
      removed |-> (h.removed \cup (queued \cap gone)) \cap still]

\* what every operation of the bridge leaves alone; it is the last conjunct of
\* an operation, after dv' and jsLog'
DVFrame ==
  /\ queueHist' = QueueHistory(queueHist, dv, dv', jsLog')
  /\ UNCHANGED <<WITH_V8, sinceBatch, tickFlush>>
  /\ UNCHANGED aiVars

DVOp(name, arg, ret) ==
  Op(name, arg, ret, dv.bIsInitialized, dv.PendingUpdates # <<>>, FALSE, <<>>)

Initialize(eo, file, o1, o2) ==
  LET r == InitializeOn(dv, eo, file, o1, o2)
  IN /\ dv' = r.d
     /\ jsLog' = r.log
     /\ lastOp' = [DVOp("Initialize", "", BoolStr(r.ok)) EXCEPT !.env = <<eo, file, o1, o2>>]
     /\ DVFrame

----------------------------------------------------------------------------
(* UDataVisualizationBridge: charts and dashboards *)

\* faulty variant: a chart is created without the bIsInitialized test
CreateChartOnUnguarded(d, fn, id, o) ==
  LET e == ExecuteJavaScript(d, Script1(fn, id, "config"), o)
  IN IF ~IsError(e) THEN Res([d EXCEPT !.Charts = @ \cup {id}], TRUE, <<e>>)
     ELSE Res(d, FALSE, <<e>>)

\* CreateLineChart .. CreateGauge share one body; fn is the vizManager method
CreateChartOn(d, fn, id, o) ==
  IF ~d.bIsInitialized THEN Res(d, FALSE, <<>>)
  ELSE LET e == ExecuteJavaScript(d, Script1(fn, id, "config"), o)
       IN IF ~IsError(e) THEN Res([d EXCEPT !.Charts = @ \cup {id}], TRUE, <<e>>)
          ELSE Res(d, FALSE, <<e>>)

CreateDashboardOn(d, id, o) ==
  IF ~d.bIsInitialized THEN Res(d, FALSE, <<>>)
  ELSE LET e == ExecuteJavaScript(d, Script1("createDashboard", id, "config"), o)
       IN IF ~IsError(e) THEN Res([d EXCEPT !.Dashboards = @ \cup {id}], TRUE, <<e>>)
          ELSE Res(d, FALSE, <<e>>)

\* an operation that only runs one script (UpdateDashboard, SetTheme)
ScriptOnlyOn(d, fn, id, o) ==
  IF ~d.bIsInitialized THEN Res(d, FALSE, <<>>)
  ELSE Res(d, TRUE, <<ExecuteJavaScript(d, Script1(fn, id, "data"), o)>>)

\* faulty variant: the chart is forgotten whatever removeChart answers
RemoveChartOnCareless(d, id, o) ==
  IF ~d.bIsInitialized THEN Res(d, FALSE, <<>>)
  ELSE Res([d EXCEPT !.Charts = @ \ {id}], TRUE,
           <<ExecuteJavaScript(d, Script1("removeChart", id, ""), o)>>)

RemoveChartOn(d, id, o) ==
  IF ~d.bIsInitialized THEN Res(d, FALSE, <<>>)
  ELSE LET e == ExecuteJavaScript(d, Script1("removeChart", id, ""), o)
       IN IF ~IsError(e) THEN Res([d EXCEPT !.Charts = @ \ {id}], TRUE, <<e>>)
          ELSE Res(d, FALSE, <<e>>)

ClearAllChartsOn(d, o) ==
  IF ~d.bIsInitialized THEN Res(d, FALSE, <<>>)
  ELSE LET e == ExecuteJavaScript(d, Script1("clearAllCharts", "", ""), o)
       IN IF ~IsError(e) THEN Res([d EXCEPT !.Charts = {}, !.Dashboards = {}], TRUE, <<e>>)
          ELSE Res(d, FALSE, <<e>>)

DVCall(name, arg, r) ==
  /\ dv' = r.d
  /\ jsLog' = r.log
  /\ lastOp' = DVOp(name, arg, "void")
  /\ DVFrame

CreateLineChart(id, o) == DVCall("CreateLineChart", id, CreateChartOn(dv, "createLineChart", id, o))

CreateBarChart(id, o) == DVCall("CreateBarChart", id, CreateChartOn(dv, "createBarChart", id, o))

CreatePieChart(id, o) == DVCall("CreatePieChart", id, CreateChartOn(dv, "createPieChart", id, o))

CreateHeatmap(id, o) == DVCall("CreateHeatmap", id, CreateChartOn(dv, "createHeatmap", id, o))

CreateGauge(id, o) == DVCall("CreateGauge", id, CreateChartOn(dv, "createGauge", id, o))

CreateDashboard(id, o) == DVCall("CreateDashboard", id, CreateDashboardOn(dv, id, o))

UpdateDashboard(id, o) == DVCall("UpdateDashboard", id, ScriptOnlyOn(dv, "updateDashboard", id, o))

SetTheme(o) == DVCall("SetTheme", "", ScriptOnlyOn(dv, "setTheme", "", o))

RemoveChart(id, o) == DVCall("RemoveChart", id, RemoveChartOn(dv, id, o))

ClearAllCharts(o) == DVCall("ClearAllCharts", "", ClearAllChartsOn(dv, o))

----------------------------------------------------------------------------
(* UDataVisualizationBridge: data updates and the batch system *)

\* UpdateChart / UpdateChartMultiData / UpdateChartArray: method names the
\* queued Method, fn the vizManager method of the immediate path
UpdateOn(d, method, fn, id, data, o) ==
  IF ~d.bIsInitialized THEN Res(d, FALSE, <<>>)
  ELSE IF d.bEnableBatchUpdates
    THEN Res([d EXCEPT !.PendingUpdates = Append(@, Update(id, method, data))], TRUE, <<>>)
  ELSE Res(d, TRUE, <<ExecuteJavaScript(d, Script1(fn, id, data), o)>>)

\* the keys of GroupedUpdates, in the order they were added
RECURSIVE ChartOrder(_)
ChartOrder(s) ==
  IF s = <<>> THEN <<>>
  ELSE LET rest == ChartOrder(SubSeq(s, 1, Len(s) - 1))
           id == s[Len(s)].ChartId
       IN IF \E i \in 1..Len(rest) : rest[i] = id THEN rest ELSE Append(rest, id)

GroupedUpdates(s, id) == SelectSeq(s, LAMBDA u : u.ChartId = id)

\* what one queued update adds to the batch script
BatchCall(id, u) ==
  IF u.Method = "updateSingleData" THEN <<Stmt("batchUpdateSingle", id, u.Data)>>
  ELSE IF u.Method = "updateMultiData" THEN <<Stmt("batchUpdateMulti", id, u.Data)>>
  ELSE IF u.Method = "updateArrayData" THEN <<Stmt("batchUpdateArray", id, u.Data)>>
  ELSE <<>>

RECURSIVE BatchCalls(_, _)
BatchCalls(id, ups) ==
  IF ups = <<>> THEN <<>>
  ELSE BatchCall(id, Head(ups)) \o BatchCalls(id, Tail(ups))

BatchScript(id, ups) ==
  <<Stmt("startBatch", id, "")>> \o BatchCalls(id, ups) \o <<Stmt("commitBatch", id, "")>>

\* faulty variant: the updates of a chart whose batch script failed stay queued
ProcessBatchedUpdatesRetrying(d, outs) ==
  IF Len(d.PendingUpdates) = 0 THEN Res(d, TRUE, <<>>)
  ELSE LET order == ChartOrder(d.PendingUpdates)
           log == [i \in 1..Len(order) |->
                     ExecuteJavaScript(d, BatchScript(order[i],
                                          GroupedUpdates(d.PendingUpdates, order[i])), outs[i])]
           failed == {order[i] : i \in {j \in 1..Len(order) : IsError(log[j])}}
       IN Res([d EXCEPT !.PendingUpdates = SelectSeq(@, LAMBDA u : u.ChartId \in failed)],
              TRUE, log)

\* ProcessBatchedUpdates; outs[i] is the runtime's answer to the i-th script
ProcessBatchedUpdates(d, outs) ==
  IF Len(d.PendingUpdates) = 0 THEN Res(d, TRUE, <<>>)
  ELSE LET order == ChartOrder(d.PendingUpdates)
       IN Res([d EXCEPT !.PendingUpdates = <<>>], TRUE,
              [i \in 1..Len(order) |->
                 ExecuteJavaScript(d, BatchScript(order[i],
                                      GroupedUpdates(d.PendingUpdates, order[i])), outs[i])])

OutcomeVectors == [1..Cardinality(ChartIds) -> ScriptOutcomes]

UpdateChart(id, data, o) ==
  /\ Len(dv.PendingUpdates) < MaxPending
  /\ DVCall("UpdateChart", id, UpdateOn(dv, "updateSingleData", "updateChart", id, data, o))

UpdateChartMultiData(id, data, o) ==
  /\ Len(dv.PendingUpdates) < MaxPending
  /\ DVCall("UpdateChartMultiData", id,
            UpdateOn(dv, "updateMultiData", "updateChartMultiData", id, data, o))

UpdateChartArray(id, data, o) ==
  /\ Len(dv.PendingUpdates) < MaxPending
  /\ DVCall("UpdateChartArray", id,
            UpdateOn(dv, "updateArrayData", "updateChartArrayData", id, data, o))

\* Tick: since is FPlatformTime::Seconds() - LastBatchTime as the test computes it
TickOn(d, since, outs) ==
  IF d.bEnableBatchUpdates /\ since >= d.BatchInterval
    THEN [ProcessBatchedUpdates(d, outs) EXCEPT !.ok = TRUE]
    ELSE Res(d, FALSE, <<>>)

\* LastBatchTime = FPlatformTime::Seconds() narrows the clock's double to the
\* float member: the stored value is the clock minus the rounding error err,
\* and the age the next test computes starts at err instead of 0
Tick(err, outs) ==
  LET r == TickOn(dv, sinceBatch, outs)
  IN /\ dv' = r.d
     /\ jsLog' = r.log
     /\ sinceBatch' = IF r.ok THEN err ELSE sinceBatch
     /\ tickFlush' = IF r.ok THEN [had |-> TRUE, since |-> 0] ELSE tickFlush
     /\ lastOp' = [DVOp("Tick", "", "void") EXCEPT !.flushed = r.ok]
     /\ queueHist' = QueueHistory(queueHist, dv, dv', jsLog')
     /\ UNCHANGED WITH_V8
     /\ UNCHANGED aiVars

ProcessPendingUpdates(outs) ==
  LET r == ProcessBatchedUpdates(dv, outs)
  IN /\ dv' = r.d
     /\ jsLog' = r.log
     /\ lastOp' = [DVOp("ProcessPendingUpdates", "", "void") EXCEPT !.flushed = TRUE]
     /\ DVFrame

\* ApplyBatchedUpdates
ApplyBatchedUpdatesOn(d, ups, outs) ==
  ProcessBatchedUpdates([d EXCEPT !.PendingUpdates = @ \o ups], outs)

ApplyBatchedUpdates(ups, outs) ==
  LET r == ApplyBatchedUpdatesOn(dv, ups, outs)
  IN /\ dv' = r.d
     /\ jsLog' = r.log
     /\ lastOp' = [DVOp("ApplyBatchedUpdates", "", "void")
                     EXCEPT !.flushed = TRUE, !.updates = ups]
     /\ DVFrame

EnableBatchUpdates(b) ==
  /\ dv' = [dv EXCEPT !.bEnableBatchUpdates = b]
  /\ jsLog' = <<>>
  /\ lastOp' = DVOp("EnableBatchUpdates", BoolStr(b), "void")
  /\ DVFrame

SetBatchInterval(i) ==
  /\ dv' = [dv EXCEPT !.BatchInterval = i]
  /\ jsLog' = <<>>
  /\ lastOp' = DVOp("SetBatchInterval", "", "void")
  /\ DVFrame

\* faulty variant: Dispose flushes the queue before it clears it
DisposeOnFlushing(d, o) ==
  LET f == ProcessBatchedUpdates(d, [i \in 1..Cardinality(ChartIds) |-> o])
      c == ClearAllChartsOn(f.d, o)
  IN Res([c.d EXCEPT !.JavaScriptContext = FALSE, !.JavaScriptEngine = "null",
                     !.bIsInitialized = FALSE,
                     !.Charts = {}, !.Dashboards = {}, !.PendingUpdates = <<>>],
         TRUE, f.log \o c.log)

\* Dispose
DisposeOn(d, o) ==
  IF d.bIsInitialized
    THEN LET c == ClearAllChartsOn(d, o)
         IN Res([c.d EXCEPT !.JavaScriptContext = FALSE, !.JavaScriptEngine = "null",
                            !.bIsInitialized = FALSE,
                            !.Charts = {}, !.Dashboards = {}, !.PendingUpdates = <<>>],
                TRUE, c.log)
    ELSE Res([d EXCEPT !.Charts = {}, !.Dashboards = {}, !.PendingUpdates = <<>>],
             TRUE, <<>>)

Dispose(o) ==
  LET r == DisposeOn(dv, o)
  IN /\ dv' = r.d
     /\ jsLog' = r.log
     /\ lastOp' = DVOp("Dispose", "", "void")
     /\ DVFrame

\* the platform clock advances between calls
TimePasses ==
  /\ sinceBatch' = Sat(sinceBatch + 1)
  /\ tickFlush' = [tickFlush EXCEPT !.since = Sat(@ + 1)]
  /\ UNCHANGED <<WITH_V8, dv, jsLog, lastOp, queueHist>>
  /\ UNCHANGED aiVars

----------------------------------------------------------------------------
(* USteamAIBridge *)

Bridges == {"b1", "b2"}
NullInstance == "nullptr"
Agents == {"a1", "a2"}
Names == {"n1", "n2"}
Delegates == {"d1", "d2"}
Unbound == "unbound"

\* the world-time difference is compared with GarbageCollectionInterval only
AIClockCap == MaxGCInterval + 1

SatAI(t) == IF t > AIClockCap THEN AIClockCap ELSE t

\* static float StatsUpdateInterval = 1.0f
StatsUpdateInterval == 1

EmptyMap == [x \in {} |-> x]

MapPut(m, k, v) == [x \in (DOMAIN m) \cup {k} |-> IF x = k THEN v ELSE m[x]]

\* the members of a USteamAIBridge (Bridge.h), with Config as set in the editor
AIConstructed(phase, gcInterval, monitoring) ==
  [phase |-> phase,
   bIsInitialized |-> FALSE,
   bInitializationInProgress |-> FALSE,
   V8Context |-> FALSE,
   RegisteredActions |-> EmptyMap,
   RegisteredConditions |-> EmptyMap,
   sinceGC |-> 0,
   LastStatsUpdateTime |-> 0,
   ScriptCallsThisSecond |-> 0,
   PerformanceStats |-> [ScriptExecutionTimeMs |-> 0, ScriptCallsPerSecond |-> 0,
                         ActiveAgents |-> 0],
   Config |-> [bUseV8Engine |-> TRUE, GarbageCollectionInterval |-> gcInterval,
               bEnablePerformanceMonitoring |-> monitoring]]

AIRes(b, ret, engine, events) == [b |-> b, ret |-> ret, engine |-> engine, events |-> events]

Ev(name, val) == [event |-> name, val |-> val]

\* ExecuteV8Script / ExecuteFallbackScript: the engine's answer to a script
ExecuteV8Script(script) == FALSE

ExecuteFallbackScript(script) == TRUE

ExecuteV8Function(fn) == ""

ExecuteFallbackFunction(fn) == ""

Monitored(br, dur) ==
  IF br.Config.bEnablePerformanceMonitoring
    THEN [br EXCEPT !.PerformanceStats.ScriptExecutionTimeMs = dur,
                    !.ScriptCallsThisSecond = @ + 1]
    ELSE br

\* faulty variant: ExecuteScript without the bIsInitialized test
ExecuteScriptOnUnguarded(br, script, dur) ==
  IF br.Config.bUseV8Engine /\ br.V8Context
    THEN AIRes(Monitored(br, dur), ExecuteV8Script(script), <<script>>, <<>>)
    ELSE AIRes(Monitored(br, dur), ExecuteFallbackScript(script), <<script>>, <<>>)

\* ExecuteScript; dur is the measured execution time
ExecuteScriptOn(br, script, dur) ==
  IF ~br.bIsInitialized THEN AIRes(br, FALSE, <<>>, <<>>)
  ELSE IF br.Config.bUseV8Engine /\ br.V8Context
    THEN AIRes(Monitored(br, dur), ExecuteV8Script(script), <<script>>, <<>>)
  ELSE AIRes(Monitored(br, dur), ExecuteFallbackScript(script), <<script>>, <<>>)

\* ExecuteFunction
ExecuteFunctionOn(br, fn, dur) ==
  IF ~br.bIsInitialized THEN AIRes(br, "", <<>>, <<>>)
  ELSE IF br.Config.bUseV8Engine /\ br.V8Context
    THEN AIRes(Monitored(br, dur), ExecuteV8Function(fn), <<fn>>, <<>>)
  ELSE AIRes(Monitored(br, dur), ExecuteFallbackFunction(fn), <<fn>>, <<>>)

\* Result.Contains(TEXT("true")) on the results the engines give
ContainsTrue(result) == result = "true"

\* CreateAgent / CreateBehaviorTree / SetAgentMemory: one ExecuteFunction call
FunctionCallOn(br, fn, dur) ==
  LET r == ExecuteFunctionOn(br, fn, dur)
  IN AIRes(r.b, ContainsTrue(r.ret), r.engine, <<>>)

\* LoadSteamAIPackage; readable: the package file or one of its alternatives loads
LoadSteamAIPackage(br, readable, dur) ==
  IF ~readable THEN AIRes(br, FALSE, <<>>, <<>>)
  ELSE ExecuteScriptOn(br, "wrappedPackage", dur)

\* SetupUnrealBindings
SetupUnrealBindings(br, dur) == ExecuteScriptOn(br, "bindings", dur)

\* faulty variant: InitializeAI without the test of its two flags
InitializeAIOnUnguarded(br, readable, dur) ==
  LET b1 == [br EXCEPT !.bInitializationInProgress = TRUE]
      ld == LoadSteamAIPackage(b1, readable, dur)
      sb == SetupUnrealBindings(ld.b, dur)
  IN IF ~ld.ret
       THEN AIRes([ld.b EXCEPT !.bInitializationInProgress = FALSE], FALSE,
                  ld.engine, <<Ev("OnAIInitialized", FALSE)>>)
       ELSE AIRes([sb.b EXCEPT !.bIsInitialized = TRUE,
                               !.bInitializationInProgress = FALSE], TRUE,
                  ld.engine \o sb.engine, <<Ev("OnAIInitialized", TRUE)>>)

\* InitializeAI
InitializeAIOn(br, readable, dur) ==
  IF br.bIsInitialized \/ br.bInitializationInProgress
    THEN AIRes(br, br.bIsInitialized, <<>>, <<>>)
  ELSE LET b1 == [br EXCEPT !.bInitializationInProgress = TRUE]
           ld == LoadSteamAIPackage(b1, readable, dur)
           sb == SetupUnrealBindings(ld.b, dur)
       IN IF ~ld.ret
            THEN AIRes([ld.b EXCEPT !.bInitializationInProgress = FALSE], FALSE,
                       ld.engine, <<Ev("OnAIInitialized", FALSE)>>)
            ELSE AIRes([sb.b EXCEPT !.bIsInitialized = TRUE,
                                    !.bInitializationInProgress = FALSE], TRUE,
                       ld.engine \o sb.engine, <<Ev("OnAIInitialized", TRUE)>>)

\* CleanupJavaScript
CleanupJavaScript(br) ==
  IF ~br.bIsInitialized THEN br
  ELSE [br EXCEPT !.RegisteredActions = EmptyMap, !.RegisteredConditions = EmptyMap,
                  !.bIsInitialized = FALSE]

\* ForceGarbageCollection: LastGCTime = GetWorld()->GetTimeSeconds()
ForceGarbageCollectionOn(br, dur) ==
  LET r == ExecuteScriptOn(br, "gc", dur)
  IN AIRes([r.b EXCEPT !.sinceGC = 0], "void", r.engine, <<>>)

\* UpdatePerformanceStats
UpdatePerformanceStats(br, dt) ==
  IF ~br.Config.bEnablePerformanceMonitoring THEN br
  ELSE IF br.LastStatsUpdateTime + dt >= StatsUpdateInterval
    THEN [br EXCEPT !.PerformanceStats.ScriptCallsPerSecond = br.ScriptCallsThisSecond,
                    !.PerformanceStats.ActiveAgents = Cardinality(DOMAIN br.RegisteredActions),
                    !.ScriptCallsThisSecond = 0,
                    !.LastStatsUpdateTime = 0]
  ELSE [br EXCEPT !.LastStatsUpdateTime = @ + dt]

\* PerformPeriodicMaintenance; ret tells whether it collected
PerformPeriodicMaintenance(br, dur) ==
  IF br.sinceGC >= br.Config.GarbageCollectionInterval
    THEN [ForceGarbageCollectionOn(br, dur) EXCEPT !.ret = TRUE]
    ELSE AIRes(br, FALSE, <<>>, <<>>)

\* faulty variant: TickComponent without the bIsInitialized test
TickComponentOnUnguarded(br, dt, dur) ==
  PerformPeriodicMaintenance(UpdatePerformanceStats(br, dt), dur)

\* TickComponent, on a bridge whose world time has advanced to this frame
TickComponentOn(br, dt, dur) ==
  IF br.bIsInitialized
    THEN PerformPeriodicMaintenance(UpdatePerformanceStats(br, dt), dur)
    ELSE AIRes(br, FALSE, <<>>, <<>>)

\* HandleActionCallback / HandleConditionCallback on one of the two maps;
\* dret is what the delegate returns if it is executed
HandleCallback(map, agent, name, dret) ==
  IF agent \in DOMAIN map /\ name \in DOMAIN map[agent] /\ map[agent][name] # Unbound
    THEN [ret |-> dret, invoked |-> map[agent][name]]
    ELSE [ret |-> FALSE, invoked |-> "none"]

\* faulty variant: registering replaces the agent's whole inner map
RegisterInFresh(map, agent, name, cb) ==
  MapPut(map, agent, MapPut(EmptyMap, name, cb))

\* RegisterAction / RegisterCondition on one of the two maps
RegisterIn(map, agent, name, cb) ==
  LET m == IF agent \in DOMAIN map THEN map ELSE MapPut(map, agent, EmptyMap)
  IN MapPut(m, agent, MapPut(m[agent], name, cb))

\* JSCallAction / JSCallCondition: through GetBridgeInstance()
JSCall(kind, agent, name, dret) ==
  IF StaticInstance # NullInstance
    THEN HandleCallback(IF kind = "action" THEN ai[StaticInstance].RegisteredActions
                        ELSE ai[StaticInstance].RegisteredConditions, agent, name, dret)
    ELSE [ret |-> FALSE, invoked |-> "none"]

----------------------------------------------------------------------------
(* USteamAIBridge: the calls *)

AIOp(op, b, arg, ret, engine, events) ==
  [op |-> op, bridge |-> b, arg |-> arg, ret |-> ret, engine |-> engine,
   events |-> events, invoked |-> "none", gc |-> FALSE,
   wasInit |-> IF b \in Bridges THEN ai[b].bIsInitialized ELSE FALSE]

AIFrame == UNCHANGED <<StaticInstance, lastReg, gcHist>> /\ UNCHANGED dvVars

Alive(b) == ai[b].phase # "none"

CallsBounded(b) == ai[b].ScriptCallsThisSecond < MaxCalls

\* USteamAIBridge::USteamAIBridge
Construct(b) ==
  /\ ai[b].phase = "none"
  /\ ai' = [ai EXCEPT ![b].phase = "constructed"]
  /\ StaticInstance' = b
  /\ aiOut' = AIOp("Construct", b, "", "void", <<>>, <<>>)
  /\ UNCHANGED <<lastReg, gcHist>>
  /\ UNCHANGED dvVars

InitializeAI(b, readable, dur) ==
  LET r == InitializeAIOn(ai[b], readable, dur)
  IN /\ Alive(b)
     /\ ai' = [ai EXCEPT ![b] = r.b]
     /\ aiOut' = AIOp("InitializeAI", b, BoolStr(readable), BoolStr(r.ret), r.engine, r.events)
     /\ AIFrame

\* InitializeAI when a setup step throws: the call as far as
\* OnAIError.Broadcast in the catch block. The handlers bound to OnAIError run
\* inside the call, while bInitializationInProgress is still true, and may
\* call the bridge.
InitializeAIThrows(b) ==
  /\ Alive(b)
  /\ ~ai[b].bIsInitialized /\ ~ai[b].bInitializationInProgress
  /\ ai' = [ai EXCEPT ![b].bInitializationInProgress = TRUE]
  /\ aiOut' = AIOp("InitializeAI.catch", b, "throw", "pending", <<>>, <<Ev("OnAIError", TRUE)>>)
  /\ AIFrame

\* the rest of the catch block, once the handlers of OnAIError have returned
InitializeAIReturns(b) ==
  /\ ai[b].bInitializationInProgress
  /\ ai' = [ai EXCEPT ![b].bInitializationInProgress = FALSE]
  /\ aiOut' = AIOp("InitializeAI.return", b, "throw", "false", <<>>,
                   <<Ev("OnAIInitialized", FALSE)>>)
  /\ AIFrame

\* BeginPlay
BeginPlayOn(br, readable, dur) ==
  IF ~br.bInitializationInProgress
    THEN InitializeAIOn(br, readable, dur)
    ELSE AIRes(br, FALSE, <<>>, <<>>)

BeginPlay(b, readable, dur) ==
  LET r == BeginPlayOn(ai[b], readable, dur)
  IN /\ ai[b].phase = "constructed"
     /\ ai' = [ai EXCEPT ![b] = [r.b EXCEPT !.phase = "playing"]]
     /\ aiOut' = AIOp("BeginPlay", b, BoolStr(readable), "void", r.engine, r.events)
     /\ AIFrame

\* EndPlay
EndPlay(b) ==
  /\ ai[b].phase = "playing"
  /\ ai' = [ai EXCEPT ![b] = [CleanupJavaScript(@) EXCEPT !.phase = "ended"]]
  /\ StaticInstance' = NullInstance
  /\ aiOut' = AIOp("EndPlay", b, "", "void", <<>>, <<>>)
  /\ UNCHANGED <<lastReg, gcHist>>
  /\ UNCHANGED dvVars

AICall(name, b, arg, r, ret) ==
  /\ Alive(b)
  /\ CallsBounded(b)
  /\ ai' = [ai EXCEPT ![b] = r.b]
  /\ aiOut' = AIOp(name, b, arg, ret, r.engine, r.events)
  /\ AIFrame

ExecuteScript(b, dur) ==
  LET r == ExecuteScriptOn(ai[b], "userScript", dur)
  IN AICall("ExecuteScript", b, "userScript", r, BoolStr(r.ret))

ExecuteFunction(b, dur) ==
  LET r == ExecuteFunctionOn(ai[b], "userFunction", dur)
  IN AICall("ExecuteFunction", b, "userFunction", r, r.ret)

CreateAgent(b, agent, dur) ==
  LET r == FunctionCallOn(ai[b], "createAgent", dur)
  IN AICall("CreateAgent", b, agent, r, BoolStr(r.ret))

CreateBehaviorTree(b, dur) ==
  LET r == FunctionCallOn(ai[b], "createTree", dur)
  IN AICall("CreateBehaviorTree", b, "tree", r, BoolStr(r.ret))

SetAgentMemory(b, agent, dur) ==
  LET r == FunctionCallOn(ai[b], "updateAgentMemory", dur)
  IN AICall("SetAgentMemory", b, agent, r, BoolStr(r.ret))

ForceGarbageCollection(b, dur) ==
  AICall("ForceGarbageCollection", b, "", ForceGarbageCollectionOn(ai[b], dur), "void")

\* one frame: the world time advances by dt, then the component ticks
TickComponent(b, dt, dur) ==
  LET aged == [x \in Bridges |-> [ai[x] EXCEPT !.sinceGC = SatAI(@ + dt)]]
      r == TickComponentOn(aged[b], dt, dur)
  IN /\ ai[b].phase = "playing"
     /\ CallsBounded(b)
     /\ ai' = [aged EXCEPT ![b] = r.b]
     /\ gcHist' = [x \in Bridges |->
                     IF x = b /\ r.ret THEN [had |-> TRUE, since |-> 0]
                     ELSE [gcHist[x] EXCEPT !.since = SatAI(@ + dt)]]
     /\ aiOut' = [AIOp("TickComponent", b, dt, "void", r.engine, r.events) EXCEPT !.gc = r.ret]
     /\ UNCHANGED <<StaticInstance, lastReg>>
     /\ UNCHANGED dvVars

\* Config is BlueprintReadWrite
SetGarbageCollectionInterval(b, g) ==
  /\ Alive(b)
  /\ ai' = [ai EXCEPT ![b].Config.GarbageCollectionInterval = g]
  /\ aiOut' = AIOp("SetGarbageCollectionInterval", b, g, "void", <<>>, <<>>)
  /\ AIFrame

SetPerformanceMonitoring(b, m) ==
  /\ Alive(b)
  /\ ai' = [ai EXCEPT ![b].Config.bEnablePerformanceMonitoring = m]
  /\ aiOut' = AIOp("SetPerformanceMonitoring", b, BoolStr(m), "void", <<>>, <<>>)
  /\ AIFrame

RegKey(b, kind, agent, name) == <<b, kind, agent, name>>

RegKeys == {RegKey(b, k, a, n) : b \in Bridges, k \in {"action", "condition"},
                                 a \in Agents, n \in Names}

\* at most MaxRegs distinct registrations are followed; replacing one is free
RegRoom(key) ==
  \/ lastReg[key] # "none"
  \/ Cardinality({k \in RegKeys : lastReg[k] # "none"}) < MaxRegs

RegisterAction(b, agent, name, cb) ==
  /\ Alive(b)
  /\ RegRoom(RegKey(b, "action", agent, name))
  /\ ai' = [ai EXCEPT ![b].RegisteredActions = RegisterIn(@, agent, name, cb)]
  /\ lastReg' = [lastReg EXCEPT ![RegKey(b, "action", agent, name)] = cb]
  /\ aiOut' = AIOp("RegisterAction", b, "", "void", <<>>, <<>>)
  /\ UNCHANGED <<StaticInstance, gcHist>>
  /\ UNCHANGED dvVars

RegisterCondition(b, agent, name, cb) ==
  /\ Alive(b)
  /\ RegRoom(RegKey(b, "condition", agent, name))
  /\ ai' = [ai EXCEPT ![b].RegisteredConditions = RegisterIn(@, agent, name, cb)]
  /\ lastReg' = [lastReg EXCEPT ![RegKey(b, "condition", agent, name)] = cb]
  /\ aiOut' = AIOp("RegisterCondition", b, "", "void", <<>>, <<>>)
  /\ UNCHANGED <<StaticInstance, gcHist>>
  /\ UNCHANGED dvVars

JSCallAction(agent, name, dret) ==
  LET r == JSCall("action", agent, name, dret)
  IN /\ aiOut' = [AIOp("JSCallAction", StaticInstance, "",
                       BoolStr(r.ret), <<>>, <<>>) EXCEPT !.invoked = r.invoked]
     /\ UNCHANGED <<ai, StaticInstance, lastReg, gcHist>>
     /\ UNCHANGED dvVars

JSCallCondition(agent, name, dret) ==
  LET r == JSCall("condition", agent, name, dret)
  IN /\ aiOut' = [AIOp("JSCallCondition", StaticInstance, "",
                       BoolStr(r.ret), <<>>, <<>>) EXCEPT !.invoked = r.invoked]
     /\ UNCHANGED <<ai, StaticInstance, lastReg, gcHist>>
     /\ UNCHANGED dvVars

----------------------------------------------------------------------------
(* Initial states and specifications *)

Durations == {0, 1}
DataVals == {"x"}
Updates == {Update(id, m, d) : id \in ChartIds, m \in AnyMethods, d \in DataVals}
\* the arrays ApplyBatchedUpdates is called with: at most MaxApply updates
RECURSIVE SeqsUpTo(_, _)
SeqsUpTo(S, n) ==
  IF n = 0 THEN {<<>>}
  ELSE LET shorter == SeqsUpTo(S, n - 1)
       IN shorter \cup {Append(q, u) : q \in shorter, u \in S}

UpdateSeqs == SeqsUpTo(Updates, MaxApply)

\* bridge b1 has been constructed; b2 has not
AIStart(g, m) ==
  [b \in Bridges |-> AIConstructed(IF b = "b1" THEN "constructed" ELSE "none", g, m)]

\* the state after the constructors: the platform clock reads any value, so the
\* age of LastBatchTime = 0.0f is any of Ages; the configuration is any of G x M
Constructed(V8, Ages, G, M) ==
  /\ WITH_V8 \in V8
  /\ dv = DVConstructed
  /\ sinceBatch \in Ages
  /\ tickFlush = [had |-> FALSE, since |-> 0]
  /\ jsLog = <<>>
  /\ lastOp = Op("Construct", "", "void", FALSE, FALSE, FALSE, <<>>)
  /\ queueHist = [overtaken |-> {}, removed |-> {}]
  /\ \E g \in G, m \in M : ai = AIStart(g, m)
  /\ StaticInstance = "b1"
  /\ aiOut = [op |-> "Construct", bridge |-> "b1", arg |-> "", ret |-> "void",
              engine |-> <<>>, events |-> <<>>, invoked |-> "none", gc |-> FALSE,
              wasInit |-> FALSE]
  /\ lastReg = [k \in RegKeys |-> "none"]
  /\ gcHist = [b \in Bridges |-> [had |-> FALSE, since |-> 0]]

InitDV == Constructed(BOOLEAN, 0..ClockCap, {MaxGCInterval}, {FALSE})

InitAI == Constructed({TRUE}, {0}, 0..MaxGCInterval, BOOLEAN)

InitCB == Constructed({TRUE}, {0}, {MaxGCInterval}, {FALSE})

RoundOffs == (0 - MaxRoundOff)..MaxRoundOff
TickCharts == {"c1"}

\* the chart and dashboard lifecycle, with a short update queue
NextDV ==
  \/ \E eo \in EngineOutcomes, file \in FileOutcomes, o1 \in ScriptOutcomes,
        o2 \in ScriptOutcomes : Initialize(eo, file, o1, o2)
  \/ \E id \in ChartIds, o \in ScriptOutcomes : CreateLineChart(id, o)
  \/ \E id \in ChartIds, o \in ScriptOutcomes : CreateBarChart(id, o)
  \/ \E id \in ChartIds, o \in ScriptOutcomes : CreatePieChart(id, o)
  \/ \E id \in ChartIds, o \in ScriptOutcomes : CreateHeatmap(id, o)
  \/ \E id \in ChartIds, o \in ScriptOutcomes : CreateGauge(id, o)
  \/ \E id \in DashboardIds, o \in ScriptOutcomes : CreateDashboard(id, o)
  \/ \E id \in DashboardIds, o \in ScriptOutcomes : UpdateDashboard(id, o)
  \/ \E o \in ScriptOutcomes : SetTheme(o)
  \/ \E id \in ChartIds, o \in ScriptOutcomes : RemoveChart(id, o)
  \/ \E o \in ScriptOutcomes : ClearAllCharts(o)
  \/ \E id \in ChartIds, d \in DataVals, o \in ScriptOutcomes :
        Len(dv.PendingUpdates) < MaxQueuedLife /\ UpdateChart(id, d, o)
  \/ \E id \in ChartIds, d \in DataVals, o \in ScriptOutcomes :
        Len(dv.PendingUpdates) < MaxQueuedLife /\ UpdateChartMultiData(id, d, o)
  \/ \E id \in ChartIds, d \in DataVals, o \in ScriptOutcomes :
        Len(dv.PendingUpdates) < MaxQueuedLife /\ UpdateChartArray(id, d, o)
  \/ \E outs \in OutcomeVectors : Tick(0, outs)
  \/ \E outs \in OutcomeVectors : ProcessPendingUpdates(outs)
  \/ \E b \in BOOLEAN : EnableBatchUpdates(b)
  \/ \E o \in ScriptOutcomes : Dispose(o)

\* the update queue and what a flush submits; the clock stands still
NextDVBatch ==
  \/ \E eo \in EngineOutcomes, file \in FileOutcomes, o1 \in ScriptOutcomes,
        o2 \in ScriptOutcomes : Initialize(eo, file, o1, o2)
  \/ \E id \in ChartIds, d \in DataVals, o \in ScriptOutcomes : UpdateChart(id, d, o)
  \/ \E id \in ChartIds, d \in DataVals, o \in ScriptOutcomes : UpdateChartMultiData(id, d, o)
  \/ \E id \in ChartIds, d \in DataVals, o \in ScriptOutcomes : UpdateChartArray(id, d, o)
  \/ \E outs \in OutcomeVectors : Tick(0, outs)
  \/ \E outs \in OutcomeVectors : ProcessPendingUpdates(outs)
  \/ \E ups \in UpdateSeqs, outs \in OutcomeVectors : ApplyBatchedUpdates(ups, outs)
  \/ \E b \in BOOLEAN : EnableBatchUpdates(b)

\* one answer of the runtime for every script of a flush
UniformOutcomes == {[i \in 1..Cardinality(ChartIds) |-> o] : o \in ScriptOutcomes}

\* the batch timer: one chart, a short queue, the clock advances, Dispose is
\* not called
NextDVTick ==
  \/ \E eo \in EngineOutcomes, file \in FileOutcomes, o \in ScriptOutcomes :
        Initialize(eo, file, o, o)
  \/ \E id \in TickCharts, d \in DataVals, o \in ScriptOutcomes :
        Len(dv.PendingUpdates) < MaxQueuedLife /\ UpdateChart(id, d, o)
  \/ \E id \in TickCharts, d \in DataVals, o \in ScriptOutcomes :
        Len(dv.PendingUpdates) < MaxQueuedLife /\ UpdateChartMultiData(id, d, o)
  \/ \E id \in TickCharts, d \in DataVals, o \in ScriptOutcomes :
        Len(dv.PendingUpdates) < MaxQueuedLife /\ UpdateChartArray(id, d, o)
  \/ \E err \in RoundOffs, outs \in UniformOutcomes : Tick(err, outs)
  \/ \E b \in BOOLEAN : EnableBatchUpdates(b)
  \/ \E i \in 0..MaxInterval : SetBatchInterval(i)
  \/ TimePasses

\* the two paths of an update: the calls that queue, flush and switch paths
NextDVOrder ==
  \/ \E eo \in EngineOutcomes, file \in FileOutcomes, o1 \in ScriptOutcomes,
        o2 \in ScriptOutcomes : Initialize(eo, file, o1, o2)
  \/ \E id \in ChartIds, d \in DataVals, o \in ScriptOutcomes : UpdateChart(id, d, o)
  \/ \E id \in ChartIds, d \in DataVals, o \in ScriptOutcomes : UpdateChartMultiData(id, d, o)
  \/ \E id \in ChartIds, d \in DataVals, o \in ScriptOutcomes : UpdateChartArray(id, d, o)
  \/ \E outs \in OutcomeVectors : Tick(0, outs)
  \/ \E outs \in OutcomeVectors : ProcessPendingUpdates(outs)
  \/ \E b \in BOOLEAN : EnableBatchUpdates(b)

SpecDV == InitDV /\ [][NextDV]_vars

SpecDVOrder == InitDV /\ [][NextDVOrder]_vars

SpecDVBatch == InitDV /\ [][NextDVBatch]_vars

SpecDVTick == InitDV /\ [][NextDVTick]_vars

\* the host actor calls Tick every frame and the platform clock advances
SpecDVLive ==
  /\ InitDV
  /\ [][NextDVTick]_vars
  /\ WF_vars(TimePasses)
  /\ WF_vars(\E err \in RoundOffs, outs \in UniformOutcomes : Tick(err, outs))

CoreBridges == {"b1"}

\* the AI bridge component: its life, its calls and its frames
NextAI ==
  \/ \E b \in CoreBridges, readable \in BOOLEAN, dur \in Durations : InitializeAI(b, readable, dur)
  \/ \E b \in CoreBridges, readable \in BOOLEAN, dur \in Durations : BeginPlay(b, readable, dur)
  \/ \E b \in CoreBridges : EndPlay(b)
  \/ \E b \in CoreBridges, dur \in Durations : ExecuteScript(b, dur)
  \/ \E b \in CoreBridges, dur \in Durations : ExecuteFunction(b, dur)
  \/ \E b \in CoreBridges, agent \in Agents, dur \in Durations : CreateAgent(b, agent, dur)
  \/ \E b \in CoreBridges, dur \in Durations : CreateBehaviorTree(b, dur)
  \/ \E b \in CoreBridges, agent \in Agents, dur \in Durations : SetAgentMemory(b, agent, dur)
  \/ \E b \in CoreBridges, dur \in Durations : ForceGarbageCollection(b, dur)
  \/ \E b \in CoreBridges, dt \in 0..MaxDelta, dur \in Durations : TickComponent(b, dt, dur)
  \/ \E b \in CoreBridges, g \in 0..MaxGCInterval : SetGarbageCollectionInterval(b, g)
  \/ \E b \in CoreBridges, m \in BOOLEAN : SetPerformanceMonitoring(b, m)

\* the callbacks: two components, the static instance, the registrations
NextCB ==
  \/ \E b \in Bridges : Construct(b)
  \/ \E b \in Bridges : BeginPlay(b, TRUE, 0)
  \/ \E b \in Bridges : EndPlay(b)
  \/ \E b \in Bridges, agent \in Agents, name \in Names, cb \in Delegates \cup {Unbound} :
        RegisterAction(b, agent, name, cb)
  \/ \E b \in Bridges, agent \in Agents, name \in Names, cb \in Delegates \cup {Unbound} :
        RegisterCondition(b, agent, name, cb)
  \/ \E agent \in Agents, name \in Names, dret \in BOOLEAN : JSCallAction(agent, name, dret)
  \/ \E agent \in Agents, name \in Names, dret \in BOOLEAN : JSCallCondition(agent, name, dret)

\* the same, with InitializeAI calls in which a setup step throws
NextAIInit ==
  \/ NextAI
  \/ \E b \in CoreBridges : InitializeAIThrows(b)
  \/ \E b \in CoreBridges : InitializeAIReturns(b)

SpecAI == InitAI /\ [][NextAI]_vars

SpecAIInit == InitAI /\ [][NextAIInit]_vars

SpecCB == InitCB /\ [][NextCB]_vars

----------------------------------------------------------------------------
(* UDataVisualizationBridge: properties *)

GuardedCall ==
  \/ \E id \in ChartIds, o \in ScriptOutcomes :
       \/ CreateLineChart(id, o) \/ CreateBarChart(id, o) \/ CreatePieChart(id, o)
       \/ CreateHeatmap(id, o) \/ CreateGauge(id, o) \/ RemoveChart(id, o)
  \/ \E id \in DashboardIds, o \in ScriptOutcomes :
       CreateDashboard(id, o) \/ UpdateDashboard(id, o)
  \/ \E id \in ChartIds, d \in DataVals, o \in ScriptOutcomes :
       \/ UpdateChart(id, d, o) \/ UpdateChartMultiData(id, d, o)
       \/ UpdateChartArray(id, d, o)
  \/ \E o \in ScriptOutcomes : ClearAllCharts(o) \/ SetTheme(o)

\* C4: while the bridge is not initialized, the Create*, Update*,
\* UpdateDashboard, RemoveChart, ClearAllCharts and SetTheme calls leave
\* Charts, Dashboards and PendingUpdates unchanged and pass no script to
\* ExecuteJavaScript.
C4_UninitializedCallsAreNoOps ==
  [][(~dv.bIsInitialized /\ GuardedCall) =>
       /\ dv'.Charts = dv.Charts
       /\ dv'.Dashboards = dv.Dashboards
       /\ dv'.PendingUpdates = dv.PendingUpdates
       /\ jsLog' = <<>>]_vars

GuardedNames ==
  {"CreateLineChart", "CreateBarChart", "CreatePieChart", "CreateHeatmap", "CreateGauge",
   "CreateDashboard", "UpdateChart", "UpdateChartMultiData", "UpdateChartArray",
   "UpdateDashboard", "RemoveChart", "ClearAllCharts", "SetTheme"}

\* a guarded call was made on a bridge that is not initialized but whose
\* script context is alive (an Initialize failed in the package load)
C4_Witness ==
  /\ lastOp.op \in GuardedNames /\ ~lastOp.wasInit
  /\ WITH_V8 /\ dv.JavaScriptContext /\ ~dv.bIsInitialized

\* the engine comes up and the package loads, in terms of the environment
BothSucceed(eo, file, o1, o2) ==
  WITH_V8 /\ eo = "ok" /\ file = "ok" /\ o1 = "SUCCESS" /\ o2 = "SUCCESS"

\* C7: Initialize on an initialized bridge returns true at once, with no
\* engine setup and no package load; otherwise it sets bIsInitialized and
\* returns true exactly when InitializeJavaScriptEngine and
\* LoadDataVisualizationPackage both succeed, and on a failure it returns
\* false and bIsInitialized stays false.
C7_Initialize ==
  [][LET e == lastOp'.env
     IN (lastOp'.op = "Initialize" /\ Initialize(e[1], e[2], e[3], e[4])) =>
          IF dv.bIsInitialized
            THEN lastOp'.ret = "true" /\ dv' = dv /\ jsLog' = <<>>
            ELSE /\ dv'.bIsInitialized = BothSucceed(e[1], e[2], e[3], e[4])
                 /\ lastOp'.ret = BoolStr(BothSucceed(e[1], e[2], e[3], e[4]))]_vars

\* an Initialize failed in the package load after the engine had come up
C7_Witness ==
  /\ lastOp.op = "Initialize" /\ ~lastOp.wasInit /\ lastOp.ret = "false"
  /\ lastOp.env[1] = "ok" /\ WITH_V8
  /\ ~dv.bIsInitialized

IsBatchScript(entry) == entry.script[1].fn = "startBatch"

\* C8: after Dispose, from any state, the bridge is not initialized and
\* Charts, Dashboards and PendingUpdates are empty; the updates pending at
\* the call are not submitted; a Dispose that follows a Dispose changes
\* nothing and passes no script.
C8_Dispose ==
  [][\A o \in ScriptOutcomes :
       Dispose(o) =>
         /\ ~dv'.bIsInitialized
         /\ dv'.Charts = {} /\ dv'.Dashboards = {} /\ dv'.PendingUpdates = <<>>
         /\ \A i \in 1..Len(jsLog') : ~IsBatchScript(jsLog'[i])
         /\ lastOp.op = "Dispose" => (dv' = dv /\ jsLog' = <<>>)]_vars

\* a Dispose of an initialized bridge found updates pending
C8_Witness ==
  /\ lastOp.op = "Dispose" /\ lastOp.wasInit /\ lastOp.hadPending
  /\ dv.PendingUpdates = <<>>

\* C5: Tick calls ProcessBatchedUpdates only when batch updates are enabled
\* and at least BatchInterval has passed since LastBatchTime, and then sets
\* LastBatchTime to the current time; so two tick-driven flushes are never
\* less than the BatchInterval in force at the second one apart.
C5_TickSpacing ==
  [][(lastOp'.op = "Tick" /\ \E err \in RoundOffs, outs \in OutcomeVectors : Tick(err, outs)) =>
       /\ lastOp'.flushed => (dv.bEnableBatchUpdates /\ sinceBatch >= dv.BatchInterval)
       /\ (lastOp'.flushed /\ tickFlush.had) => tickFlush.since >= dv.BatchInterval]_vars

\* what the code keeps: a tick flushes exactly when batching is enabled and
\* the clock is BatchInterval past the float it stored in LastBatchTime
C5_StoredTimeSpacing ==
  [][(lastOp'.op = "Tick" /\ \E err \in RoundOffs, outs \in OutcomeVectors : Tick(err, outs)) =>
       /\ lastOp'.flushed = (dv.bEnableBatchUpdates /\ sinceBatch >= dv.BatchInterval)
       /\ lastOp'.flushed => sinceBatch' \in RoundOffs]_vars

\* a tick has flushed and the stored time already allows the next flush
C5_Witness ==
  /\ lastOp.op = "Tick" /\ lastOp.flushed
  /\ dv.bEnableBatchUpdates /\ dv.BatchInterval > 0
  /\ tickFlush.had /\ tickFlush.since = 0
  /\ sinceBatch >= dv.BatchInterval

\* C9: every update that UpdateChart, UpdateChartMultiData or UpdateChartArray
\* appends to PendingUpdates is eventually submitted in a batch, as long as
\* Tick keeps being called, time advances and Dispose is not called.
C9_PendingEventuallySubmitted ==
  (dv.PendingUpdates # <<>>) ~> (dv.PendingUpdates = <<>>)

\* what the code keeps: the queue is flushed if batching stays enabled
C9_SubmittedWhileEnabled ==
  (dv.PendingUpdates # <<>>) ~> (dv.PendingUpdates = <<>> \/ ~dv.bEnableBatchUpdates)

\* a tick found an update queued, the interval long past, batching disabled
C9_Witness ==
  /\ lastOp.op = "Tick" /\ ~lastOp.flushed /\ lastOp.hadPending
  /\ dv.PendingUpdates # <<>> /\ ~dv.bEnableBatchUpdates
  /\ sinceBatch >= dv.BatchInterval

BatchFn(method) ==
  IF method = "updateSingleData" THEN {"batchUpdateSingle"}
  ELSE IF method = "updateMultiData" THEN {"batchUpdateMulti"}
  ELSE IF method = "updateArrayData" THEN {"batchUpdateArray"}
  ELSE {"batchUpdateSingle", "batchUpdateMulti", "batchUpdateArray"}

\* log holds one script per chart of q: startBatch, one call for each of the
\* chart's updates that Counted admits, in the order of q, commitBatch
Submitted(q, log, Counted) ==
  /\ Len(log) = Cardinality(ChartsOf(q))
  /\ {log[k].script[1].id : k \in 1..Len(log)} = ChartsOf(q)
  /\ \A k \in 1..Len(log) :
       LET sc == log[k].script
           id == sc[1].id
           mine == SelectSeq(q, LAMBDA u : u.ChartId = id /\ u.Method \in Counted)
       IN /\ log[k].api = "ExecuteJavaScript"
          /\ Len(sc) = Len(mine) + 2
          /\ sc[1] = Stmt("startBatch", id, "")
          /\ sc[Len(sc)] = Stmt("commitBatch", id, "")
          /\ \A j \in 1..Len(mine) :
               /\ sc[j + 1].fn \in BatchFn(mine[j].Method)
               /\ sc[j + 1].id = id
               /\ sc[j + 1].data = mine[j].Data

\* a step that ran ProcessBatchedUpdates submitted the queue it found
Flushed(Counted) ==
  /\ lastOp'.op = "ProcessPendingUpdates" => Submitted(dv.PendingUpdates, jsLog', Counted)
  /\ lastOp'.op = "ApplyBatchedUpdates" =>
       Submitted(dv.PendingUpdates \o lastOp'.updates, jsLog', Counted)
  /\ (lastOp'.op = "Tick" /\ lastOp'.flushed) => Submitted(dv.PendingUpdates, jsLog', Counted)

FlushStep ==
  \/ \E outs \in OutcomeVectors : ProcessPendingUpdates(outs)
  \/ \E outs \in OutcomeVectors : ApplyBatchedUpdates(lastOp'.updates, outs)
  \/ \E outs \in OutcomeVectors : Tick(0, outs)

\* C10: ProcessBatchedUpdates submits exactly one script per distinct ChartId
\* in PendingUpdates: startBatch(id), one batchUpdateSingle/Multi/Array call
\* for each pending update of the chart in the order of appending,
\* commitBatch(id); it submits nothing when PendingUpdates is empty.
C10_OneCallPerUpdate ==
  [][(lastOp'.op \in {"ProcessPendingUpdates", "ApplyBatchedUpdates", "Tick"} /\ FlushStep)
       => Flushed(AnyMethods)]_vars

\* what the code keeps: one call for each pending update whose Method is one
\* of updateSingleData, updateMultiData, updateArrayData
C10_OneCallPerKnownUpdate ==
  [][(lastOp'.op \in {"ProcessPendingUpdates", "ApplyBatchedUpdates", "Tick"} /\ FlushStep)
       => Flushed(KnownMethods)]_vars

\* a flush met an update whose Method is none of the three, next to others
C10_Witness ==
  /\ lastOp.op = "ApplyBatchedUpdates" /\ lastOp.hadPending
  /\ \E i \in 1..Len(lastOp.updates) : lastOp.updates[i].Method \notin KnownMethods
  /\ Len(jsLog) = 2

\* the queue a flushing step worked on: what was pending, and for
\* ApplyBatchedUpdates the array it appended
FlushedQueue == dv.PendingUpdates \o lastOp'.updates

\* C11: ProcessBatchedUpdates leaves PendingUpdates empty whatever the batch
\* scripts return: the updates of a chart whose script returned an error are
\* dropped, and a script is still passed to ExecuteJavaScript for every other
\* chart of the same flush.
C11_FlushDropsFailedBatches ==
  [][(lastOp'.op \in {"ProcessPendingUpdates", "ApplyBatchedUpdates", "Tick"}
        /\ lastOp'.flushed /\ FlushStep) =>
       /\ dv'.PendingUpdates = <<>>
       /\ \A id \in ChartsOf(FlushedQueue) :
            \E k \in 1..Len(jsLog') : /\ jsLog'[k].api = "ExecuteJavaScript"
                                      /\ jsLog'[k].script[1] = Stmt("startBatch", id, "")]_vars

\* a flush of two charts: the runtime failed the first chart's script, ran the
\* second's, and the queue is empty
C11_Witness ==
  /\ lastOp.flushed /\ lastOp.hadPending
  /\ Len(jsLog) = 2
  /\ jsLog[1].reached /\ jsLog[1].result = "ERROR"
  /\ jsLog[2].reached /\ jsLog[2].result = "SUCCESS"
  /\ jsLog[1].script[1].id # jsLog[2].script[1].id
  /\ dv.PendingUpdates = <<>>

\* the charts for which the runtime ran a batch script holding an update
BatchRan(log) ==
  {log[k].script[1].id :
     k \in {j \in 1..Len(log) : /\ log[j].reached /\ log[j].result = "SUCCESS"
                                /\ log[j].script[1].fn = "startBatch"
                                /\ Len(log[j].script) > 2}}

UpdateNames == {"UpdateChart", "UpdateChartMultiData", "UpdateChartArray"}

\* C12: for any one chart, updates reach the script runtime in the order in
\* which UpdateChart / UpdateChartMultiData / UpdateChartArray were called
\* for it, whatever the interleaving with EnableBatchUpdates, Tick and
\* ProcessPendingUpdates: no flush runs a queued update of a chart after the
\* runtime has run an update of that chart that was called later.
C12_UpdateOrderPerChart ==
  [][(lastOp'.op \in {"ProcessPendingUpdates", "Tick"} /\ lastOp'.flushed) =>
       BatchRan(jsLog') \cap queueHist.overtaken = {}]_vars

\* an update of a chart has just run on the immediate path while an earlier
\* update of the same chart waits in PendingUpdates
C12_Witness ==
  /\ lastOp.op \in UpdateNames /\ lastOp.wasInit /\ lastOp.hadPending
  /\ Len(jsLog) = 1 /\ jsLog[1].reached /\ jsLog[1].result = "SUCCESS"
  /\ lastOp.arg \in queueHist.overtaken
  /\ lastOp.arg \in ChartsOf(dv.PendingUpdates)
  /\ ~dv.bEnableBatchUpdates

\* C13: after RemoveChart(id) or ClearAllCharts has succeeded, no later flush
\* submits an update of a removed chart that was queued in PendingUpdates
\* before the removal.
C13_NoUpdateAfterRemoval ==
  [][(lastOp'.op \in {"ProcessPendingUpdates", "Tick"} /\ lastOp'.flushed) =>
       BatchRan(jsLog') \cap queueHist.removed = {}]_vars

\* a chart has just been removed from Charts while an update of it waits in
\* PendingUpdates
C13_Witness ==
  /\ lastOp.op \in {"RemoveChart", "ClearAllCharts"} /\ lastOp.wasInit /\ lastOp.hadPending
  /\ Len(jsLog) = 1 /\ jsLog[1].reached /\ jsLog[1].result = "SUCCESS"
  /\ queueHist.removed # {}
  /\ queueHist.removed \subseteq ChartsOf(dv.PendingUpdates)
  /\ queueHist.removed \cap dv.Charts = {}

CreateNames ==
  {"CreateLineChart", "CreateBarChart", "CreatePieChart", "CreateHeatmap", "CreateGauge"}

\* the one script of the step just taken came back without / with ERROR
ScriptSucceeded == Len(jsLog') = 1 /\ jsLog'[1].result # "ERROR"

ScriptFailed == Len(jsLog') = 1 /\ jsLog'[1].result = "ERROR"

\* C14: a ChartId enters Charts only through a create-chart call for that id
\* whose script came back without ERROR, and is out of Charts after a
\* successful RemoveChart(id), a successful ClearAllCharts and any Dispose; a
\* create or remove whose script result contains ERROR leaves Charts unchanged.
C14_ChartsTrackScripts ==
  [][/\ \A id \in dv'.Charts \ dv.Charts :
          lastOp'.op \in CreateNames /\ lastOp'.arg = id /\ ScriptSucceeded
     /\ (lastOp'.op = "RemoveChart" /\ ScriptSucceeded) => lastOp'.arg \notin dv'.Charts
     /\ (lastOp'.op = "ClearAllCharts" /\ ScriptSucceeded) => dv'.Charts = {}
     /\ lastOp'.op = "Dispose" => dv'.Charts = {}
     /\ (lastOp'.op \in CreateNames \cup {"RemoveChart"} /\ ScriptFailed) =>
          dv'.Charts = dv.Charts]_vars

\* removeChart failed for a chart the bridge holds, next to a second chart
C14_Witness ==
  /\ lastOp.op = "RemoveChart" /\ lastOp.wasInit
  /\ Len(jsLog) = 1 /\ jsLog[1].reached /\ jsLog[1].result = "ERROR"
  /\ lastOp.arg \in dv.Charts
  /\ dv.Charts # {lastOp.arg}

\* C15: whenever IsInitialized() is false the bridge holds no live
\* JavaScript engine and no context: a failed Initialize releases the engine
\* and context it created, and Dispose always shuts the engine down.
C15_NoEngineWhileUninitialized ==
  ~dv.bIsInitialized => (dv.JavaScriptEngine = "null" /\ ~dv.JavaScriptContext)

\* Dispose has returned on a bridge that a failed Initialize left with an
\* engine and a context
C15_Witness ==
  /\ lastOp.op = "Dispose" /\ ~lastOp.wasInit
  /\ ~dv.bIsInitialized
  /\ dv.JavaScriptEngine = "initialized" /\ dv.JavaScriptContext

----------------------------------------------------------------------------
(* USteamAIBridge: properties *)

\* C1: InitializeAI on an uninitialized bridge whose package file is readable
\* (the engine accepts every script) returns true, leaves IsInitialized() true
\* and broadcasts OnAIInitialized(true).
C1_InitializeAISucceeds ==
  (aiOut.op = "InitializeAI" /\ ~aiOut.wasInit /\ aiOut.arg = "true")
    => /\ aiOut.ret = "true"
       /\ ai[aiOut.bridge].bIsInitialized
       /\ aiOut.events = <<Ev("OnAIInitialized", TRUE)>>

\* what the code does on that input: the package script is refused by
\* ExecuteScript because bIsInitialized is still false
C1_Observed ==
  /\ aiOut.op = "InitializeAI" /\ ~aiOut.wasInit /\ aiOut.arg = "true"
  /\ aiOut.ret = "false"
  /\ ~ai[aiOut.bridge].bIsInitialized
  /\ aiOut.events = <<Ev("OnAIInitialized", FALSE)>>
  /\ aiOut.engine = <<>>

SameCounters(b) ==
  /\ ai'[b].ScriptCallsThisSecond = ai[b].ScriptCallsThisSecond
  /\ ai'[b].PerformanceStats.ScriptExecutionTimeMs = ai[b].PerformanceStats.ScriptExecutionTimeMs

\* C2: while the bridge is not initialized, ExecuteScript returns false and
\* ExecuteFunction returns the empty string, neither reaches the engine nor
\* changes ScriptCallsThisSecond or ScriptExecutionTimeMs; CreateAgent,
\* CreateBehaviorTree and SetAgentMemory return false.
C2_UninitializedCallsRefused ==
  [][\A b \in Bridges, dur \in Durations :
       ~ai[b].bIsInitialized =>
         /\ ExecuteScript(b, dur) =>
              aiOut'.ret = "false" /\ aiOut'.engine = <<>> /\ SameCounters(b)
         /\ ExecuteFunction(b, dur) =>
              aiOut'.ret = "" /\ aiOut'.engine = <<>> /\ SameCounters(b)
         /\ CreateBehaviorTree(b, dur) => aiOut'.ret = "false"
         /\ \A agent \in Agents :
              /\ CreateAgent(b, agent, dur) => aiOut'.ret = "false"
              /\ SetAgentMemory(b, agent, dur) => aiOut'.ret = "false"]_vars

\* a script was refused on a bridge that monitors performance
C2_Witness ==
  /\ aiOut.op = "ExecuteScript" /\ ~aiOut.wasInit /\ aiOut.ret = "false"
  /\ ai[aiOut.bridge].Config.bEnablePerformanceMonitoring
  /\ ai[aiOut.bridge].ScriptCallsThisSecond = 0

----------------------------------------------------------------------------
(* The script callbacks: properties *)

\* the delegate the registrations so far leave for (kind, agent, name) on the
\* current static instance
Expected(kind, agent, name) ==
  IF StaticInstance = NullInstance THEN "none"
  ELSE LET cb == lastReg[RegKey(StaticInstance, kind, agent, name)]
       IN IF cb \in Delegates THEN cb ELSE "none"

\* C3: JSCallAction(a, n) returns what the delegate most recently registered
\* with RegisterAction for (a, n) on the current static instance returns,
\* whatever was registered for other pairs, and returns false without invoking
\* anything when no bound delegate is registered or there is no instance; the
\* same holds for JSCallCondition and RegisterCondition.
C3_CallbackDispatch ==
  [][aiOut'.op \in {"JSCallAction", "JSCallCondition"} =>
       \A agent \in Agents, name \in Names, dret \in BOOLEAN :
         /\ JSCallAction(agent, name, dret) =>
              /\ aiOut'.invoked = Expected("action", agent, name)
              /\ aiOut'.ret = BoolStr(Expected("action", agent, name) # "none" /\ dret)
         /\ JSCallCondition(agent, name, dret) =>
              /\ aiOut'.invoked = Expected("condition", agent, name)
              /\ aiOut'.ret = BoolStr(Expected("condition", agent, name) # "none" /\ dret)]_vars

\* a callback ran a delegate of an agent that has two names registered
C3_Witness ==
  /\ aiOut.op = "JSCallAction" /\ aiOut.ret = "true" /\ aiOut.invoked = "d2"
  /\ StaticInstance # NullInstance
  /\ \E agent \in Agents :
       /\ lastReg[RegKey(StaticInstance, "action", agent, "n1")] = "d1"
       /\ lastReg[RegKey(StaticInstance, "action", agent, "n2")] = "d2"

====
